---- MODULE Spec2Model ----
(***************************************************************************)
(* Model of api/main.py: the FastAPI application with the bid extraction   *)
(* endpoint POST /api/extract-bid and the two fixed endpoints / and        *)
(* /health.                                                                *)
(*                                                                         *)
(* A Python str is a sequence of atoms.  An atom is a TLA+ string standing *)
(* for one character ("{", "j", " ", ...) or for one run of                *)
(* characters none of which the handler or the JSON scanner looks at       *)
(* individually (a word of prose, the inside of a JSON string, a numeric   *)
(* literal, the literal null).  Indices are Python's: 0-based, a negative  *)
(* index counts from the end.                                              *)
(***************************************************************************)
EXTENDS Integers, Sequences, FiniteSets, TLC

(***************************************************************************)
(* Python values used by the handler                                       *)
(***************************************************************************)

\* Optional[str] / Optional[float]: None or a value.
None == [some |-> FALSE, val |-> <<>>]
Some(v) == [some |-> TRUE, val |-> v]

\* Truthiness of an Optional[str]: None and "" are falsy.
Truthy(o) == o.some /\ Len(o.val) > 0

Min(a, b) == IF a < b THEN a ELSE b
Max(a, b) == IF a > b THEN a ELSE b

(***************************************************************************)
(* str methods                                                             *)
(***************************************************************************)

\* s[a:b] with Python's index normalisation (negative indices count from
\* the end, out-of-range indices are clamped, an empty range gives "").
Slice(s, a, b) ==
    LET n  == Len(s)
        lo == IF a < 0 THEN Max(a + n, 0) ELSE Min(a, n)
        hi == IF b < 0 THEN Max(b + n, 0) ELSE Min(b, n)
    IN  IF lo >= hi THEN <<>> ELSE SubSeq(s, lo + 1, hi)

\* sub occurs in s at 0-based offset i.
OccursAt(s, sub, i) ==
    /\ i >= 0
    /\ i + Len(sub) <= Len(s)
    /\ \A k \in 1..Len(sub) : s[i + k] = sub[k]

\* s.find(sub, start): lowest offset >= start where sub occurs, else -1.
Find(s, sub, start) ==
    LET hits == {i \in start..(Len(s) - Len(sub)) : OccursAt(s, sub, i)}
    IN  IF hits = {} THEN -1 ELSE CHOOSE i \in hits : \A j \in hits : i <= j

\* s.rfind(sub): highest offset where sub occurs, else -1.
RFind(s, sub) ==
    LET hits == {i \in 0..(Len(s) - Len(sub)) : OccursAt(s, sub, i)}
    IN  IF hits = {} THEN -1 ELSE CHOOSE i \in hits : \A j \in hits : i >= j

\* sub in s
Contains(s, sub) == \E i \in 0..(Len(s) - Len(sub)) : OccursAt(s, sub, i)

Whitespace == {" ", "\n"}

\* s.strip(): leading and trailing whitespace removed.
Strip(s) ==
    LET keep == {i \in 1..Len(s) : s[i] \notin Whitespace}
    IN  IF keep = {} THEN <<>>
        ELSE SubSeq(s, CHOOSE i \in keep : \A j \in keep : i <= j,
                       CHOOSE i \in keep : \A j \in keep : i >= j)

UpperLetters == <<"A", "B", "E", "F", "G", "I", "J", "N", "P", "W", "X">>
LowerLetters == <<"a", "b", "e", "f", "g", "i", "j", "n", "p", "w", "x">>

\* c.lower() for one character.
LowerChar(c) ==
    IF \E i \in 1..Len(UpperLetters) : UpperLetters[i] = c
    THEN LowerLetters[CHOOSE i \in 1..Len(UpperLetters) : UpperLetters[i] = c]
    ELSE c

\* s.lower()
Lower(s) == [i \in 1..Len(s) |-> LowerChar(s[i])]

\* s.endswith(suffix)
EndsWith(s, suffix) ==
    /\ Len(suffix) <= Len(s)
    /\ SubSeq(s, Len(s) - Len(suffix) + 1, Len(s)) = suffix

(***************************************************************************)
(* json.loads                                                              *)
(*                                                                         *)
(* A decoded JSON value is [t, v]: t is the Python type the decoder gives  *)
(* ("NoneType", "float", "str", "list", "dict") and v the payload: <<>>    *)
(* for None, the literal for a number, the characters of a str, the        *)
(* sequence of elements of a list, the key -> value function of a dict.    *)
(***************************************************************************)

JNull == [t |-> "NoneType", v |-> <<>>]
JNum(a) == [t |-> "float", v |-> <<a>>]
JStr(cs) == [t |-> "str", v |-> cs]
JList(xs) == [t |-> "list", v |-> xs]
JDict(d) == [t |-> "dict", v |-> d]

\* Whitespace the JSON scanner skips between tokens.
JsonWs == {" ", "\n"}

\* Numeric literals of the replies (one atom each).
NumAtoms == {"10", "2.5"}

Quote == "\""

\* The character at 0-based offset i; "" past the end of the text.
At(s, i) == IF i >= 0 /\ i < Len(s) THEN s[i + 1] ELSE ""

\* Offset of the first non-whitespace character at or after i.
SkipWs(s, i) ==
    LET stops == {j \in i..Len(s) : At(s, j) \notin JsonWs}
    IN  CHOOSE j \in stops : \A k \in stops : j <= k

ParseFail == [ok |-> FALSE, val |-> JNull, end |-> 0]
ParseOk(v, e) == [ok |-> TRUE, val |-> v, end |-> e]

\* d[k] = v on a dict: a repeated key keeps the last value.
DictPut(d, k, v) == [x \in (DOMAIN d) \cup {k} |-> IF x = k THEN v ELSE d[x]]

\* A string starting at the quote at offset i: up to the next quote; a raw
\* newline inside a string is an invalid control character.
ParseString(s, i) ==
    LET q == Find(s, <<Quote>>, i + 1)
        body == Slice(s, i + 1, q)
    IN  IF q = -1 THEN ParseFail
        ELSE IF \E k \in 1..Len(body) : body[k] = "\n" THEN ParseFail
        ELSE ParseOk(JStr(body), q + 1)

RECURSIVE ParseValue(_, _)
RECURSIVE ParseMembers(_, _, _)
RECURSIVE ParseElements(_, _, _)

\* The members of an object from offset j, which must hold a key's quote.
ParseMembers(s, j, d) ==
    IF At(s, j) # Quote THEN ParseFail
    ELSE LET key == ParseString(s, j)
         IN  IF ~key.ok THEN ParseFail
             ELSE LET colon == SkipWs(s, key.end)
                  IN  IF At(s, colon) # ":" THEN ParseFail
                      ELSE LET val == ParseValue(s, SkipWs(s, colon + 1))
                           IN  IF ~val.ok THEN ParseFail
                               ELSE LET nxt == SkipWs(s, val.end)
                                        d2  == DictPut(d, key.val.v, val.val)
                                    IN  IF At(s, nxt) = "}" THEN ParseOk(JDict(d2), nxt + 1)
                                        ELSE IF At(s, nxt) = ","
                                        THEN ParseMembers(s, SkipWs(s, nxt + 1), d2)
                                        ELSE ParseFail

\* The elements of an array from offset j.
ParseElements(s, j, acc) ==
    LET val == ParseValue(s, j)
    IN  IF ~val.ok THEN ParseFail
        ELSE LET nxt == SkipWs(s, val.end)
                 acc2 == Append(acc, val.val)
             IN  IF At(s, nxt) = "]" THEN ParseOk(JList(acc2), nxt + 1)
                 ELSE IF At(s, nxt) = ","
                 THEN ParseElements(s, SkipWs(s, nxt + 1), acc2)
                 ELSE ParseFail

\* scan_once: the value starting at offset i.
ParseValue(s, i) ==
    LET c == At(s, i)
    IN  IF c = Quote THEN ParseString(s, i)
        ELSE IF c = "{"
        THEN LET j == SkipWs(s, i + 1)
             IN  IF At(s, j) = "}" THEN ParseOk(JDict(<<>>), j + 1)
                 ELSE ParseMembers(s, j, <<>>)
        ELSE IF c = "["
        THEN LET j == SkipWs(s, i + 1)
             IN  IF At(s, j) = "]" THEN ParseOk(JList(<<>>), j + 1)
                 ELSE ParseElements(s, j, <<>>)
        ELSE IF c = "null" THEN ParseOk(JNull, i + 1)
        ELSE IF c \in NumAtoms THEN ParseOk(JNum(c), i + 1)
        ELSE ParseFail

\* json.loads(s): ok = FALSE stands for json.JSONDecodeError (nothing
\* decodable, or extra data after the value).
JsonLoads(s) ==
    LET r == ParseValue(s, SkipWs(s, 0))
    IN  IF r.ok /\ SkipWs(s, r.end) = Len(s)
        THEN [ok |-> TRUE, val |-> r.val]
        ELSE [ok |-> FALSE, val |-> JNull]

(***************************************************************************)
(* pydantic models (lines 24-37)                                           *)
(***************************************************************************)

\* The str that is one run of characters, e.g. a field name.
Str(a) == <<a>>

FieldOk(v) == [ok |-> TRUE, val |-> v]
FieldError == [ok |-> FALSE, val |-> None]

\* A field declared Optional[str] = None.
OptionalStrField(d, name) ==
    IF Str(name) \notin DOMAIN d THEN FieldOk(None)
    ELSE LET x == d[Str(name)]
         IN  IF x.t = "NoneType" THEN FieldOk(None)
             ELSE IF x.t = "str" THEN FieldOk(Some(x.v))
             ELSE FieldError

\* A field declared Optional[float] = None: a number, or a str that spells one.
OptionalFloatField(d, name) ==
    IF Str(name) \notin DOMAIN d THEN FieldOk(None)
    ELSE LET x == d[Str(name)]
         IN  IF x.t = "NoneType" THEN FieldOk(None)
             ELSE IF x.t = "float" THEN FieldOk(Some(x.v))
             ELSE IF x.t = "str" /\ Len(x.v) = 1 /\ x.v[1] \in NumAtoms THEN FieldOk(Some(x.v))
             ELSE FieldError

\* A field declared str, without default.
RequiredStrField(d, name) ==
    IF Str(name) \notin DOMAIN d THEN FieldError
    ELSE LET x == d[Str(name)]
         IN  IF x.t = "str" THEN FieldOk(Some(x.v)) ELSE FieldError

\* class LineItem(BaseModel): validation of one element of line_items.
LineItem(x) ==
    IF x.t # "dict" THEN FieldError
    ELSE LET d == x.v
             item_number == OptionalStrField(d, "item_number")
             description == RequiredStrField(d, "description")
             quantity    == OptionalFloatField(d, "quantity")
             unit        == OptionalStrField(d, "unit")
             unit_price  == OptionalFloatField(d, "unit_price")
             total_price == OptionalFloatField(d, "total_price")
             notes       == OptionalStrField(d, "notes")
         IN  IF /\ item_number.ok /\ description.ok /\ quantity.ok /\ unit.ok
                /\ unit_price.ok /\ total_price.ok /\ notes.ok
             THEN FieldOk([item_number |-> item_number.val,
                           description |-> description.val.val,
                           quantity    |-> quantity.val,
                           unit        |-> unit.val,
                           unit_price  |-> unit_price.val,
                           total_price |-> total_price.val,
                           notes       |-> notes.val])
             ELSE FieldError

\* line_items: List[LineItem], without default.
LineItemsField(d) ==
    IF Str("line_items") \notin DOMAIN d THEN FieldError
    ELSE LET x == d[Str("line_items")]
         IN  IF x.t # "list" THEN FieldError
             ELSE IF \A i \in 1..Len(x.v) : LineItem(x.v[i]).ok
             THEN FieldOk([i \in 1..Len(x.v) |-> LineItem(x.v[i]).val])
             ELSE FieldError

\* A BidFormResponse instance.
BidForm(project_name, line_items, extraction_confidence, raw_text) ==
    [project_name          |-> project_name,
     line_items            |-> line_items,
     extraction_confidence |-> extraction_confidence,
     raw_text              |-> raw_text]

\* Python exceptions: the class and str(e).
Exc(type, msg) == [type |-> type, msg |-> msg]
NoExc == Exc("", <<>>)

Returned(v) == [raised |-> FALSE, value |-> v, exc |-> NoExc]
Raised(e) == [raised |-> TRUE, value |-> BidForm(None, <<>>, <<>>, None), exc |-> e]

\* BidFormResponse(**result, raw_text=response_text)  (line 153)
\*   result is no mapping            -> TypeError
\*   result has a "raw_text" key     -> TypeError (keyword given twice)
\*   a field fails validation        -> pydantic ValidationError
\*   keys that are no field of the model are ignored.
NewBidFormResponse(result, response_text) ==
    IF result.t # "dict"
    THEN Raised(Exc("TypeError",
                    <<"BidFormResponse() argument after ** must be a mapping, not ", result.t>>))
    ELSE IF Str("raw_text") \in DOMAIN result.v
    THEN Raised(Exc("TypeError",
                    <<"BidFormResponse() got multiple values for keyword argument 'raw_text'">>))
    ELSE LET project_name == OptionalStrField(result.v, "project_name")
             line_items   == LineItemsField(result.v)
             confidence   == RequiredStrField(result.v, "extraction_confidence")
         IN  IF project_name.ok /\ line_items.ok /\ confidence.ok
             THEN Returned(BidForm(project_name.val, line_items.val,
                                   confidence.val.val, Some(response_text)))
             ELSE Raised(Exc("ValidationError",
                             <<"validation error for BidFormResponse">>))

(***************************************************************************)
(* extract_bid_from_diagram: the parts that compute                        *)
(***************************************************************************)

B64Alphabet ==
    <<"A","B","C","D","E","F","G","H","I","J","K","L","M","N","O","P",
      "Q","R","S","T","U","V","W","X","Y","Z","a","b","c","d","e","f",
      "g","h","i","j","k","l","m","n","o","p","q","r","s","t","u","v",
      "w","x","y","z","0","1","2","3","4","5","6","7","8","9","+","/">>

B64Char(n) == B64Alphabet[n + 1]

RECURSIVE B64Encode(_)
\* base64.standard_b64encode(content).decode("utf-8")  (line 66)
B64Encode(bytes) ==
    IF Len(bytes) = 0 THEN <<>>
    ELSE IF Len(bytes) = 1
    THEN <<B64Char(bytes[1] \div 4), B64Char((bytes[1] % 4) * 16), "=", "=">>
    ELSE IF Len(bytes) = 2
    THEN <<B64Char(bytes[1] \div 4),
           B64Char((bytes[1] % 4) * 16 + bytes[2] \div 16),
           B64Char((bytes[2] % 16) * 4), "=">>
    ELSE <<B64Char(bytes[1] \div 4),
           B64Char((bytes[1] % 4) * 16 + bytes[2] \div 16),
           B64Char((bytes[2] % 16) * 4 + bytes[3] \div 64),
           B64Char(bytes[3] % 64)>> \o B64Encode(SubSeq(bytes, 4, Len(bytes)))

\* MediaType without the lower(): extensions compared case-sensitively.
MediaTypeCaseSensitive(filename) ==
    IF ~Truthy(filename) THEN "image/jpeg"
    ELSE IF EndsWith(filename.val, <<".", "p", "n", "g">>) THEN "image/png"
    ELSE IF \/ EndsWith(filename.val, <<".", "j", "p", "g">>)
            \/ EndsWith(filename.val, <<".", "j", "p", "e", "g">>) THEN "image/jpeg"
    ELSE IF EndsWith(filename.val, <<".", "w", "e", "b", "p">>) THEN "image/webp"
    ELSE IF EndsWith(filename.val, <<".", "g", "i", "f">>) THEN "image/gif"
    ELSE "image/jpeg"

\* Lines 68-78: the media type, from file.filename.
MediaType(filename) ==
    IF ~Truthy(filename) THEN "image/jpeg"
    ELSE IF EndsWith(Lower(filename.val), <<".", "p", "n", "g">>) THEN "image/png"
    ELSE IF \/ EndsWith(Lower(filename.val), <<".", "j", "p", "g">>)
            \/ EndsWith(Lower(filename.val), <<".", "j", "p", "e", "g">>) THEN "image/jpeg"
    ELSE IF EndsWith(Lower(filename.val), <<".", "w", "e", "b", "p">>) THEN "image/webp"
    ELSE IF EndsWith(Lower(filename.val), <<".", "g", "i", "f">>) THEN "image/gif"
    ELSE "image/jpeg"

\* The atom of the grave accent U+0060, which TLA+ cannot spell in a string.
Backtick == "U+0060"

\* The opening tag of a fenced json block, and a fence.
JsonTag == <<Backtick, Backtick, Backtick, "j", "s", "o", "n">>
Fence == <<Backtick, Backtick, Backtick>>

\* The length of the opening tag, the 7 of line 142.
JsonTagLen == 7

\* JsonStr with the two searches in the other order: braces first.
JsonStrBracesFirst(response_text) ==
    IF Contains(response_text, <<"{">>)
    THEN LET json_start == Find(response_text, <<"{">>, 0)
             json_end   == RFind(response_text, <<"}">>) + 1
         IN  Slice(response_text, json_start, json_end)
    ELSE IF Contains(response_text, JsonTag)
    THEN LET json_start == Find(response_text, JsonTag, 0) + JsonTagLen
             json_end   == Find(response_text, Fence, json_start)
         IN  Strip(Slice(response_text, json_start, json_end))
    ELSE response_text

\* JsonStr with the brace span ending at the first closing brace.
JsonStrFirstClose(response_text) ==
    IF Contains(response_text, JsonTag)
    THEN LET json_start == Find(response_text, JsonTag, 0) + JsonTagLen
             json_end   == Find(response_text, Fence, json_start)
         IN  Strip(Slice(response_text, json_start, json_end))
    ELSE IF Contains(response_text, <<"{">>)
    THEN LET json_start == Find(response_text, <<"{">>, 0)
             json_end   == Find(response_text, <<"}">>, 0) + 1
         IN  Slice(response_text, json_start, json_end)
    ELSE response_text

\* Lines 141-150: the candidate JSON string.
JsonStr(response_text) ==
    IF Contains(response_text, JsonTag)
    THEN LET json_start == Find(response_text, JsonTag, 0) + JsonTagLen
             json_end   == Find(response_text, Fence, json_start)
         IN  Strip(Slice(response_text, json_start, json_end))
    ELSE IF Contains(response_text, <<"{">>)
    THEN LET json_start == Find(response_text, <<"{">>, 0)
             json_end   == RFind(response_text, <<"}">>) + 1
         IN  Slice(response_text, json_start, json_end)
    ELSE response_text

\* Lines 156-160: the response of the except json.JSONDecodeError branch.
DegradedResponse(response_text) ==
    BidForm(None, <<>>, Str("low"), Some(response_text))

\* ParseReply without the except json.JSONDecodeError branch.
ParseReplyUncaught(response_text) ==
    LET result == JsonLoads(JsonStr(response_text))
    IN  IF result.ok
        THEN NewBidFormResponse(result.val, response_text)
        ELSE Raised(Exc("JSONDecodeError", <<"Expecting value">>))

\* Lines 139-160: the inner try.  json.JSONDecodeError is handled here;
\* every other exception leaves the block.
ParseReply(response_text) ==
    LET result == JsonLoads(JsonStr(response_text))
    IN  IF result.ok
        THEN NewBidFormResponse(result.val, response_text)
        ELSE Returned(DegradedResponse(response_text))

\* HTTPException(status_code, detail); str(e) is "<status_code>: <detail>".
HTTPException(status_code, detail) ==
    [type |-> "HTTPException", msg |-> <<status_code, ": ">> \o detail,
     status_code |-> status_code, detail |-> detail]

\* OuterExcept where str(e) is lost.
OuterExceptNoMessage(e) ==
    HTTPException("500", <<"Error processing image: ">>)

\* OuterExcept answering with a client error.
OuterExceptBadRequest(e) ==
    HTTPException("400", <<"Error processing image: ">> \o e.msg)

\* Lines 162-163: except Exception as e.
OuterExcept(e) ==
    HTTPException("500", <<"Error processing image: ">> \o e.msg)

\* Line 135: message.content[0].text; content is the list of the reply's
\* text blocks.
FirstBlockText(content) ==
    IF Len(content) = 0
    THEN Raised(Exc("IndexError", <<"list index out of range">>))
    ELSE [raised |-> FALSE, value |-> content[1], exc |-> NoExc]

(***************************************************************************)
(* HTTP responses                                                          *)
(***************************************************************************)

NoBid == BidForm(None, <<>>, <<>>, None)

\* No response sent yet.
NoResponse == [status |-> "", kind |-> "none", bid |-> NoBid, detail |-> <<>>, json |-> {}]

\* 200 with the handler's BidFormResponse (response_model=BidFormResponse).
BidResponse(bid) ==
    [status |-> "200", kind |-> "bid", bid |-> bid, detail |-> <<>>, json |-> {}]

\* The framework's answer to a raised HTTPException: its status and {"detail": ...}.
ErrorResponse(e) ==
    [status |-> e.status_code, kind |-> "error", bid |-> NoBid, detail |-> e.detail, json |-> {}]

\* 200 with a fixed JSON object, as a set of <<key, value>>.
JsonResponse(pairs) ==
    [status |-> "200", kind |-> "json", bid |-> NoBid, detail |-> <<>>, json |-> pairs]

\* The framework's answer to a request that lacks a required parameter.
ValidationResponse(field) ==
    [status |-> "422", kind |-> "validation", bid |-> NoBid, detail |-> <<>>,
     json |-> {<<"loc", field>>, <<"msg", "Field required">>}]

\* Line 46
RootPayload == {<<"message", "Preconstruction Bidding API">>, <<"status", "running">>}

\* Line 167
HealthPayload == {<<"status", "healthy">>}

(***************************************************************************)
(* Inputs: uploads, replies of the upstream model, faults                  *)
(***************************************************************************)

\* Requests that can be in flight at once.
MaxRequests == 2
Requests == 1..MaxRequests

FileStems == {<<>>, <<"a">>, <<"a", ".", "p", "n", "g">>}

FileExts ==
    { <<>>,
      <<".", "p", "n", "g">>, <<".", "P", "N", "G">>, <<".", "P", "n", "g">>,
      <<".", "j", "p", "g">>, <<".", "J", "P", "G">>,
      <<".", "j", "p", "e", "g">>, <<".", "J", "p", "E", "G">>,
      <<".", "w", "e", "b", "p">>, <<".", "W", "E", "B", "P">>,
      <<".", "g", "i", "f">>, <<".", "G", "I", "F">>,
      <<".", "b", "i", "n">>, <<"p", "n", "g">>, <<".", "p", "n">>,
      <<".", "p", "n", "g", "x">>, <<".", "g", "i", "f", ".">> }

\* file.filename: missing, or a stem followed by an extension.
Filenames == {None} \cup {Some(st \o ex) : st \in FileStems, ex \in FileExts}

\* The bytes of the uploaded file.
UploadBytes == {<<>>, <<255, 216, 255, 224>>}

Uploads == [filename : Filenames, data : UploadBytes]

\* A JSON string literal: quote, characters, quote.
Lit(a) == <<Quote, a, Quote>>

\* {"project_name": "Lot 5", "line_items": [], "extraction_confidence": "high"}
ObjLot5 ==
    <<"{">> \o Lit("project_name") \o <<":", " ">> \o Lit("Lot 5") \o <<",", " ">>
    \o Lit("line_items") \o <<":", " ", "[", "]", ",", " ">>
    \o Lit("extraction_confidence") \o <<":", " ">> \o Lit("high") \o <<"}">>

\* {"line_items": [{"description": "Concrete pour", "quantity": 10, "unit": "CY"}],
\*  "extraction_confidence": "medium"}
ObjConcrete ==
    <<"{">> \o Lit("line_items") \o <<":", " ", "[", "{">>
    \o Lit("description") \o <<":", " ">> \o Lit("Concrete pour") \o <<",", " ">>
    \o Lit("quantity") \o <<":", " ", "10", ",", " ">>
    \o Lit("unit") \o <<":", " ">> \o Lit("CY") \o <<"}", "]", ",", "\n", " ">>
    \o Lit("extraction_confidence") \o <<":", " ">> \o Lit("medium") \o <<"}">>

\* {"project_name": null, "line_items": [], "extraction_confidence": "medium", "pages": [10]}
ObjExtraKey ==
    <<"{">> \o Lit("project_name") \o <<":", "null", ",">>
    \o Lit("line_items") \o <<":", "[", "]", ",">>
    \o Lit("extraction_confidence") \o <<":">> \o Lit("medium") \o <<",">>
    \o Lit("pages") \o <<":", "[", "10", "]", "}">>

\* {"line_items": []}
ObjNoConfidence == <<"{">> \o Lit("line_items") \o <<":", " ", "[", "]", "}">>

\* {"extraction_confidence": "high"}
ObjNoItems == <<"{">> \o Lit("extraction_confidence") \o <<":", " ">> \o Lit("high") \o <<"}">>

\* {"line_items": [{"quantity": 2.5}], "extraction_confidence": "low"}
ObjItemNoDescription ==
    <<"{">> \o Lit("line_items") \o <<":", "[", "{">> \o Lit("quantity")
    \o <<":", "2.5", "}", "]", ",">>
    \o Lit("extraction_confidence") \o <<":">> \o Lit("low") \o <<"}">>

\* {"line_items": [], "extraction_confidence": "high", "raw_text": "seen"}
ObjWithRawText ==
    <<"{">> \o Lit("line_items") \o <<":", "[", "]", ",">>
    \o Lit("extraction_confidence") \o <<":">> \o Lit("high") \o <<",">>
    \o Lit("raw_text") \o <<":">> \o Lit("seen") \o <<"}">>

\* Candidates that are JSON documents of the BidFormResponse shape.
ValidBodies == {ObjLot5, ObjConcrete, ObjExtraKey}

\* JSON documents of another shape.
OtherShapeBodies ==
    { <<"[", "]">>, <<"10">>, <<"null">>, Lit("no diagram"), <<"{", "}">>,
      ObjNoConfidence, ObjNoItems, ObjItemNoDescription, ObjWithRawText }

\* Texts that are no JSON document.
BrokenBodies ==
    { <<>>,
      <<"I cannot process this image">>,
      <<"{">> \o Lit("line_items") \o <<":", "[", "}">>,
      <<"{">> \o Lit("line_items") \o <<":", "[", "]", ",", "}">>,
      <<"}", " ", "{">>,
      <<"{">> \o Lit("line_items"),
      ObjLot5 \o <<" ">> \o ObjLot5 }

Bodies == ValidBodies \cup OtherShapeBodies \cup BrokenBodies

Intro == <<"Here is the data:", " ">>
Outro == <<"\n", "Let me know.">>
OpenJson == JsonTag \o <<"\n">>
CloseFence == <<"\n">> \o Fence

\* The ways a reply carries a body.
Wrappings(b) ==
    { b,
      Intro \o b,
      Intro \o b \o Outro,
      OpenJson \o b \o CloseFence,
      Intro \o OpenJson \o b \o CloseFence \o Outro,
      <<"{", "note", "}", " ">> \o OpenJson \o b \o CloseFence,
      JsonTag \o b \o Fence \o <<" ">> \o Fence \o <<"text", "\n">> \o Fence,
      Fence \o <<"\n">> \o b \o CloseFence,
      OpenJson \o b,
      OpenJson \o b \o <<"\n">>,
      Intro \o JsonTag \o <<" ">> \o b \o <<" ", " ">> }

\* The texts the upstream model may answer.
Replies == UNION {Wrappings(b) : b \in Bodies}

\* message.content: no block, or one text block.
Contents == {<<>>} \cup {<<t>> : t \in Replies}

\* What "await file.read()" may raise.
ReadErrors ==
    { Exc("OSError", <<"[Errno 5] Input/output error">>),
      Exc("MemoryError", <<>>) }

\* What client.messages.create may raise.
UpstreamErrors ==
    { Exc("APIConnectionError", <<"Connection error.">>),
      Exc("AuthenticationError", <<"Error code: 401 - invalid x-api-key">>) }

\* The process environment after load_dotenv(): the variable unset, empty or set.
Environments ==
    { [n \in {} |-> <<>>],
      [n \in {"ANTHROPIC_API_KEY"} |-> <<>>],
      [n \in {"ANTHROPIC_API_KEY"} |-> <<"sk-ant-test">>] }

\* The inputs of the runs with several requests in flight.
FewUploads ==
    { [filename |-> Some(<<"a", ".", "P", "N", "G">>), data |-> <<>>],
      [filename |-> None, data |-> <<255, 216, 255, 224>>] }
FewContents ==
    { <<>>, <<OpenJson \o ObjLot5 \o CloseFence>>, <<Intro \o <<"[", "]">> >>,
      <<Intro \o ObjConcrete>> }

(***************************************************************************)
(* The application: requests in flight                                     *)
(***************************************************************************)

VARIABLES
    environ,      \* os.environ after load_dotenv() (line 10)
    pc,           \* where each request's handler stands
    endpoint,     \* the route of each request
    upload,       \* file: the UploadFile of each request
    content,      \* line 55
    api_key,      \* line 58
    image_data,   \* line 66
    media_type,   \* lines 69-78
    calls,        \* the requests client.messages.create has sent, per request
    message,      \* message.content, per request
    caught,       \* e of line 162
    response      \* the HTTP response of each request

vars == <<environ, pc, endpoint, upload, content, api_key, image_data,
          media_type, calls, message, caught, response>>

NoUpload == [filename |-> None, data |-> <<>>]

Init ==
    /\ environ \in Environments
    /\ pc = [r \in Requests |-> "idle"]
    /\ endpoint = [r \in Requests |-> ""]
    /\ upload = [r \in Requests |-> NoUpload]
    /\ content = [r \in Requests |-> None]
    /\ api_key = [r \in Requests |-> None]
    /\ image_data = [r \in Requests |-> <<>>]
    /\ media_type = [r \in Requests |-> ""]
    /\ calls = [r \in Requests |-> <<>>]
    /\ message = [r \in Requests |-> <<>>]
    /\ caught = [r \in Requests |-> NoExc]
    /\ response = [r \in Requests |-> NoResponse]

\* os.getenv(name)
Getenv(name) == IF name \in DOMAIN environ THEN Some(environ[name]) ELSE None

\* The upload the handler of r reads.
FileOf(r) == upload[r]

\* MessageOf reading one variable shared by all requests: the message of
\* the lowest request that has one.
MessageOfShared(r) ==
    LET have == {q \in Requests : Len(message[q]) > 0}
    IN  IF have = {} THEN message[r]
        ELSE message[CHOOSE q \in have : \A p \in have : q <= p]

\* The reply the handler of r parses.
MessageOf(r) == message[r]

\* An exception reaches line 162: HTTPException(500, "Error processing
\* image: ...") is raised and the framework answers with it.
Fails(r, e) ==
    /\ caught' = [caught EXCEPT ![r] = e]
    /\ response' = [response EXCEPT ![r] = ErrorResponse(OuterExcept(e))]
    /\ pc' = [pc EXCEPT ![r] = "done"]

\* GET /  (lines 44-46)
root(r) ==
    /\ pc[r] = "idle"
    /\ endpoint' = [endpoint EXCEPT ![r] = "/"]
    /\ response' = [response EXCEPT ![r] = JsonResponse(RootPayload)]
    /\ pc' = [pc EXCEPT ![r] = "done"]
    /\ UNCHANGED <<environ, upload, content, api_key, image_data, media_type,
                   calls, message, caught>>

\* GET /health  (lines 165-167)
health_check(r) ==
    /\ pc[r] = "idle"
    /\ endpoint' = [endpoint EXCEPT ![r] = "/health"]
    /\ response' = [response EXCEPT ![r] = JsonResponse(HealthPayload)]
    /\ pc' = [pc EXCEPT ![r] = "done"]
    /\ UNCHANGED <<environ, upload, content, api_key, image_data, media_type,
                   calls, message, caught>>

\* POST /api/extract-bid with the file field: the handler is entered (line 49).
ExtractBid(r, file) ==
    /\ pc[r] = "idle"
    /\ endpoint' = [endpoint EXCEPT ![r] = "/api/extract-bid"]
    /\ upload' = [upload EXCEPT ![r] = file]
    /\ pc' = [pc EXCEPT ![r] = "read"]
    /\ UNCHANGED <<environ, content, api_key, image_data, media_type, calls,
                   message, caught, response>>

\* POST /api/extract-bid without the file field: file is File(...), a
\* required parameter (line 49), so the framework answers before the
\* handler is entered.
ExtractBidWithoutFile(r) ==
    /\ pc[r] = "idle"
    /\ endpoint' = [endpoint EXCEPT ![r] = "/api/extract-bid"]
    /\ response' = [response EXCEPT ![r] = ValidationResponse("body.file")]
    /\ pc' = [pc EXCEPT ![r] = "done"]
    /\ UNCHANGED <<environ, upload, content, api_key, image_data, media_type,
                   calls, message, caught>>

\* Line 55: content = await file.read()
ReadFile(r) ==
    /\ pc[r] = "read"
    /\ content' = [content EXCEPT ![r] = Some(FileOf(r).data)]
    /\ pc' = [pc EXCEPT ![r] = "getenv"]
    /\ UNCHANGED <<environ, endpoint, upload, api_key, image_data, media_type,
                   calls, message, caught, response>>

\* Line 55 raises.
ReadFileRaises(r, e) ==
    /\ pc[r] = "read"
    /\ Fails(r, e)
    /\ UNCHANGED <<environ, endpoint, upload, content, api_key, image_data,
                   media_type, calls, message>>

\* Lines 58-60: the credential; absent, HTTPException(500, ...) is raised
\* inside the try and caught at line 162.
GetApiKey(r) ==
    /\ pc[r] = "getenv"
    /\ api_key' = [api_key EXCEPT ![r] = Getenv("ANTHROPIC_API_KEY")]
    /\ IF ~Truthy(Getenv("ANTHROPIC_API_KEY"))
       THEN Fails(r, HTTPException("500", <<"ANTHROPIC_API_KEY not configured">>))
       ELSE /\ pc' = [pc EXCEPT ![r] = "encode"]
            /\ UNCHANGED <<caught, response>>
    /\ UNCHANGED <<environ, endpoint, upload, content, image_data, media_type,
                   calls, message>>

\* Lines 63-78: the client, the base64 text and the media type.
EncodeImage(r) ==
    /\ pc[r] = "encode"
    /\ image_data' = [image_data EXCEPT ![r] = B64Encode(content[r].val)]
    /\ media_type' = [media_type EXCEPT ![r] = MediaType(FileOf(r).filename)]
    /\ pc' = [pc EXCEPT ![r] = "call"]
    /\ UNCHANGED <<environ, endpoint, upload, content, api_key, calls, message,
                   caught, response>>

\* CreateMessage that sends the request again while no reply has come.
CreateMessageRetrying(r) ==
    /\ pc[r] \in {"call", "await"}
    /\ calls' = [calls EXCEPT ![r] = Append(@, [api_key    |-> api_key[r].val,
                                               media_type |-> media_type[r],
                                               data       |-> image_data[r]])]
    /\ pc' = [pc EXCEPT ![r] = "await"]
    /\ UNCHANGED <<environ, endpoint, upload, content, api_key, image_data,
                   media_type, message, caught, response>>

\* Lines 81-132: client.messages.create(...) sends the one request.
CreateMessage(r) ==
    /\ pc[r] = "call"
    /\ calls' = [calls EXCEPT ![r] = Append(@, [api_key    |-> api_key[r].val,
                                               media_type |-> media_type[r],
                                               data       |-> image_data[r]])]
    /\ pc' = [pc EXCEPT ![r] = "await"]
    /\ UNCHANGED <<environ, endpoint, upload, content, api_key, image_data,
                   media_type, message, caught, response>>

\* The call returns a message.
MessageReturned(r, blocks) ==
    /\ pc[r] = "await"
    /\ message' = [message EXCEPT ![r] = blocks]
    /\ pc' = [pc EXCEPT ![r] = "parse"]
    /\ UNCHANGED <<environ, endpoint, upload, content, api_key, image_data,
                   media_type, calls, caught, response>>

\* The call raises.
CreateMessageRaises(r, e) ==
    /\ pc[r] = "await"
    /\ Fails(r, e)
    /\ UNCHANGED <<environ, endpoint, upload, content, api_key, image_data,
                   media_type, calls, message>>

\* Lines 135-160: the reply text, the candidate, json.loads, the response.
ParseResponse(r) ==
    /\ pc[r] = "parse"
    /\ LET response_text == FirstBlockText(MessageOf(r))
       IN  IF response_text.raised THEN Fails(r, response_text.exc)
           ELSE LET out == ParseReply(response_text.value)
                IN  IF out.raised THEN Fails(r, out.exc)
                    ELSE /\ response' = [response EXCEPT ![r] = BidResponse(out.value)]
                         /\ pc' = [pc EXCEPT ![r] = "done"]
                         /\ UNCHANGED caught
    /\ UNCHANGED <<environ, endpoint, upload, content, api_key, image_data,
                   media_type, calls, message>>

\* The steps of one request, its inputs drawn from the given sets.
Step(r, files, contents) ==
    \/ root(r)
    \/ health_check(r)
    \/ \E file \in files : ExtractBid(r, file)
    \/ ExtractBidWithoutFile(r)
    \/ ReadFile(r)
    \/ \E e \in ReadErrors : ReadFileRaises(r, e)
    \/ GetApiKey(r)
    \/ EncodeImage(r)
    \/ CreateMessage(r)
    \/ \E blocks \in contents : MessageReturned(r, blocks)
    \/ \E e \in UpstreamErrors : CreateMessageRaises(r, e)
    \/ ParseResponse(r)

\* One request at a time, every upload and every reply.
Next == \E r \in {1} : Step(r, Uploads, Contents)

Spec == Init /\ [][Next]_vars

\* Requests in flight together, their steps interleaved.
NextConcurrent == \E r \in Requests : Step(r, FewUploads, FewContents)

SpecConcurrent == Init /\ [][NextConcurrent]_vars

(***************************************************************************)
(* Properties                                                              *)
(***************************************************************************)

Extracting(r) == endpoint[r] = "/api/extract-bid"

\* The request entered the handler extract_bid_from_diagram.
Handled(r) == Extracting(r) /\ pc[r] # "idle" /\ response[r].kind # "validation"
Done(r) == pc[r] = "done"

\* The request is answered and its upstream call returned a reply text.
Replied(r) == Done(r) /\ Len(message[r]) > 0
Text(r) == message[r][1]

\* ANTHROPIC_API_KEY is unset or empty.
KeyAbsent ==
    \/ "ANTHROPIC_API_KEY" \notin DOMAIN environ
    \/ environ["ANTHROPIC_API_KEY"] = <<>>

ConfigText == "ANTHROPIC_API_KEY not configured"
ProcessingPrefix == "Error processing image: "

\* The text occurs in the detail string.
DetailHas(r, text) == \E i \in 1..Len(response[r].detail) : response[r].detail[i] = text

\* The degraded answer: 200, no items, confidence "low", no project name,
\* the whole reply as raw_text.
IsDegraded(r) ==
    /\ response[r].status = "200"
    /\ response[r].kind = "bid"
    /\ response[r].bid.line_items = <<>>
    /\ response[r].bid.extraction_confidence = <<"low">>
    /\ ~response[r].bid.project_name.some
    /\ response[r].bid.raw_text = Some(Text(r))

IsServerError(r) == response[r].status = "500" /\ response[r].kind = "error"

\* The candidate is a JSON document that BidFormResponse accepts.
IsBidObject(candidate, text) ==
    /\ JsonLoads(candidate).ok
    /\ ~NewBidFormResponse(JsonLoads(candidate).val, text).raised

\* The value the decoded object d gives for an optional field, else null.
GivenOrNull(d, name) ==
    IF Str(name) \in DOMAIN d /\ d[Str(name)].t # "NoneType"
    THEN Some(d[Str(name)].v) ELSE None

\* The record has the fields of the decoded object d, null where d gives none.
RecordOf(bid, d) ==
    /\ bid.project_name = GivenOrNull(d, "project_name")
    /\ bid.extraction_confidence = d[Str("extraction_confidence")].v
    /\ Len(bid.line_items) = Len(d[Str("line_items")].v)
    /\ \A i \in 1..Len(bid.line_items) :
          LET item == bid.line_items[i]
              src  == d[Str("line_items")].v[i].v
          IN  /\ item.description = src[Str("description")].v
              /\ item.item_number = GivenOrNull(src, "item_number")
              /\ item.quantity = GivenOrNull(src, "quantity")
              /\ item.unit = GivenOrNull(src, "unit")
              /\ item.unit_price = GivenOrNull(src, "unit_price")
              /\ item.total_price = GivenOrNull(src, "total_price")
              /\ item.notes = GivenOrNull(src, "notes")

\* The request is answered 200 with the record of the candidate's object.
AnswersWith(r, candidate) ==
    /\ response[r].status = "200"
    /\ response[r].kind = "bid"
    /\ RecordOf(response[r].bid, JsonLoads(candidate).val.v)
    /\ response[r].bid.raw_text = Some(Text(r))

C2_WrongShapeDegrades ==
    \A r \in Requests :
        ( /\ Replied(r)
          /\ JsonLoads(JsonStr(Text(r))).ok
          /\ ~IsBidObject(JsonStr(Text(r)), Text(r)) ) => IsDegraded(r)

\* C3 as stated: with the credential absent every extraction request ends
\* 500 with the "not configured" text in its detail.
C3_AbsentKeyAlwaysNamed ==
    \A r \in Requests :
        (Done(r) /\ Handled(r) /\ KeyAbsent)
            => (response[r].status = "500" /\ DetailHas(r, ConfigText))

\* C3 amended: with the credential absent every extraction request ends
\* 500; its detail holds the "not configured" text, behind the prefix of
\* the outer handler, whenever the upload was read, and the message of the
\* read error when reading the upload raised.
C3_AbsentKeyNamedAfterRead ==
    \A r \in Requests :
        (Done(r) /\ Handled(r) /\ KeyAbsent)
            => /\ IsServerError(r)
               /\ IF content[r].some
                  THEN /\ DetailHas(r, ConfigText)
                       /\ response[r].detail[1] = ProcessingPrefix
                       /\ calls[r] = <<>>
                  ELSE /\ caught[r] \in ReadErrors
                       /\ response[r].detail = <<ProcessingPrefix>> \o caught[r].msg

C3_Witness ==
    \E r \in Requests :
        /\ Done(r) /\ Handled(r) /\ KeyAbsent
        /\ content[r].some /\ content[r].val # <<>>
        /\ upload[r].filename.some
        /\ response[r].status = "500"
        /\ response[r].detail = <<ProcessingPrefix, "500", ": ", ConfigText>>

\* Upper and lower case of one letter, or the same character.
SameLetter(a, b) ==
    \/ a = b
    \/ \E i \in 1..Len(UpperLetters) : {a, b} = {UpperLetters[i], LowerLetters[i]}

\* The name ends in the extension, letter case ignored.
EndsIn(name, ext) ==
    /\ Len(name) >= Len(ext)
    /\ \A k \in 1..Len(ext) : SameLetter(name[Len(name) - Len(ext) + k], ext[k])

\* The table of C4.
TypeOfName(filename) ==
    IF ~filename.some \/ filename.val = <<>> THEN "image/jpeg"
    ELSE IF EndsIn(filename.val, <<".", "p", "n", "g">>) THEN "image/png"
    ELSE IF EndsIn(filename.val, <<".", "w", "e", "b", "p">>) THEN "image/webp"
    ELSE IF EndsIn(filename.val, <<".", "g", "i", "f">>) THEN "image/gif"
    ELSE "image/jpeg"

\* C4: the media type sent upstream is decided by the filename alone, its
\* extension compared case-insensitively (.png, .jpg/.jpeg, .webp, .gif;
\* anything else, an empty or a missing name: image/jpeg), whatever the
\* bytes of the file.
C4_MediaTypeFromFilename ==
    \A r \in Requests :
        /\ pc[r] \in {"call", "await", "parse"} => media_type[r] = TypeOfName(upload[r].filename)
        /\ \A i \in 1..Len(calls[r]) : calls[r][i].media_type = TypeOfName(upload[r].filename)

C4_Witness ==
    \E r \in Requests :
        /\ upload[r].filename = Some(<<"a", ".", "P", "N", "G">>)
        /\ upload[r].data # <<>>
        /\ Len(calls[r]) = 1
        /\ calls[r][1].media_type = "image/png"

\* Offsets (0-based) where the opening tag of a json block starts.
TagOffsets(text) == {i \in 0..Len(text) : OccursAt(text, JsonTag, i)}

\* The offset just behind the first opening tag.
AfterFirstTag(text) ==
    (CHOOSE i \in TagOffsets(text) : \A j \in TagOffsets(text) : i <= j) + 7

\* Offsets of the fences that start behind the first opening tag.
ClosingFences(text) ==
    {j \in AfterFirstTag(text)..Len(text) : OccursAt(text, Fence, j)}

\* The reply holds a json block with its closing fence.
HasClosedBlock(text) == TagOffsets(text) # {} /\ ClosingFences(text) # {}

\* The reply holds an opening tag but no fence behind it.
HasOpenBlock(text) == TagOffsets(text) # {} /\ ClosingFences(text) = {}

\* Without leading and trailing whitespace.
Trimmed(s) ==
    IF \A i \in 1..Len(s) : s[i] \in {" ", "\n"} THEN <<>>
    ELSE LET a == CHOOSE i \in 1..Len(s) :
                      s[i] \notin {" ", "\n"} /\ \A j \in 1..(i - 1) : s[j] \in {" ", "\n"}
             b == CHOOSE i \in 1..Len(s) :
                      s[i] \notin {" ", "\n"} /\ \A j \in (i + 1)..Len(s) : s[j] \in {" ", "\n"}
         IN  SubSeq(s, a, b)

\* What stands between the first opening tag and the next fence behind it.
BlockBody(text) ==
    LET close == CHOOSE j \in ClosingFences(text) : \A k \in ClosingFences(text) : j <= k
    IN  Trimmed(SubSeq(text, AfterFirstTag(text) + 1, close))

\* Everything behind the first opening tag.
BlockRest(text) == Trimmed(SubSeq(text, AfterFirstTag(text) + 1, Len(text)))

HasOpenBrace(text) == \E i \in 1..Len(text) : text[i] = "{"

\* From the first opening brace to the last closing brace, both included;
\* empty when no closing brace follows the first opening brace.
BraceSpan(text) ==
    LET first == CHOOSE i \in 1..Len(text) :
                     text[i] = "{" /\ \A j \in 1..(i - 1) : text[j] # "{"
        closes == {i \in first..Len(text) : text[i] = "}"}
    IN  IF closes = {} THEN <<>>
        ELSE SubSeq(text, first, CHOOSE i \in closes : \A j \in closes : i >= j)

\* C5: for a reply with a json block (opening tag and closing fence) the
\* candidate is the trimmed text between the first opening tag and the next
\* fence, also when an opening brace stands before the block; when that
\* candidate is a BidFormResponse object the answer is 200 with the
\* object's project_name, line_items and extraction_confidence and with
\* the whole reply as raw_text.
C5_FencedBlockIsCandidate ==
    \A r \in Requests :
        (Replied(r) /\ HasClosedBlock(Text(r)))
            => /\ JsonStr(Text(r)) = BlockBody(Text(r))
               /\ IsBidObject(BlockBody(Text(r)), Text(r))
                      => AnswersWith(r, BlockBody(Text(r)))

C5_Witness ==
    \E r \in Requests :
        /\ Replied(r)
        /\ Text(r) = <<"{", "note", "}", " ">> \o OpenJson \o ObjLot5 \o CloseFence
        /\ response[r].status = "200"
        /\ response[r].bid.project_name = Some(<<"Lot 5">>)
        /\ response[r].bid.line_items = <<>>
        /\ response[r].bid.extraction_confidence = <<"high">>
        /\ response[r].bid.raw_text = Some(Text(r))

\* C6: for a reply without opening tag but with an opening brace the
\* candidate runs from the first opening brace to the last closing brace,
\* the prose around it dropped; when it is a BidFormResponse object the
\* answer is 200 with its fields, every optional field it does not give
\* being null; when no closing brace follows the first opening brace the
\* candidate is empty and the answer is the degraded 200 one.
C6_BraceSpanIsCandidate ==
    \A r \in Requests :
        (Replied(r) /\ TagOffsets(Text(r)) = {} /\ HasOpenBrace(Text(r)))
            => /\ JsonStr(Text(r)) = BraceSpan(Text(r))
               /\ IsBidObject(BraceSpan(Text(r)), Text(r))
                      => AnswersWith(r, BraceSpan(Text(r)))
               /\ BraceSpan(Text(r)) = <<>> => IsDegraded(r)

C6_Witness ==
    \E r \in Requests :
        /\ Replied(r)
        /\ Text(r) = Intro \o ObjConcrete \o Outro
        /\ response[r].status = "200"
        /\ response[r].bid.extraction_confidence = <<"medium">>
        /\ response[r].bid.project_name = None
        /\ Len(response[r].bid.line_items) = 1
        /\ response[r].bid.line_items[1].description = <<"Concrete pour">>
        /\ response[r].bid.line_items[1].quantity = Some(<<"10">>)
        /\ response[r].bid.line_items[1].unit = Some(<<"CY">>)
        /\ response[r].bid.line_items[1].item_number = None
        /\ response[r].bid.line_items[1].notes = None

\* What C7 says of an answered request.
TwoOutcomes(r) ==
    /\ \/ response[r].status = "200" /\ response[r].kind = "bid" /\ caught[r] = NoExc
       \/ /\ IsServerError(r)
          /\ caught[r] # NoExc
          /\ response[r].detail = <<ProcessingPrefix>> \o caught[r].msg
    /\ ~content[r].some => (IsServerError(r) /\ caught[r] \in ReadErrors)
    /\ (calls[r] # <<>> /\ message[r] = <<>>)
           => (IsServerError(r) /\ caught[r].type \in
                  {"IndexError", "APIConnectionError", "AuthenticationError"})
    /\ (Replied(r) /\ ~JsonLoads(JsonStr(Text(r))).ok) => response[r].status = "200"
    /\ (Replied(r) /\ JsonLoads(JsonStr(Text(r))).ok
           /\ ~IsBidObject(JsonStr(Text(r)), Text(r)))
           => (IsServerError(r) /\ caught[r].type \in {"TypeError", "ValidationError"})

\* C7 as stated: every request to /api/extract-bid ends either 200 with a
\* BidFormResponse or 500 with a detail string; every failure but a JSON
\* parse failure (the upload cannot be read, the upstream call raises, the
\* reply has no first block, any other exception) ends 500 with the detail
\* "Error processing image: " followed by the exception's message, and no
\* failure gives a 4xx status.
C7_EveryRequestTwoOutcomes ==
    \A r \in Requests : (Done(r) /\ Extracting(r)) => TwoOutcomes(r)

\* C7 amended: every request to /api/extract-bid that enters the handler
\* ends in one of the two outcomes, as above; a request without the file
\* field never enters it and is answered 422.
C7_HandledRequestTwoOutcomes ==
    \A r \in Requests :
        (Done(r) /\ Extracting(r))
            => IF Handled(r) THEN TwoOutcomes(r)
               ELSE response[r].status = "422" /\ calls[r] = <<>>

C7_Witness ==
    \E r \in Requests :
        /\ Done(r) /\ Handled(r)
        /\ Len(calls[r]) = 1
        /\ caught[r].type = "APIConnectionError"
        /\ response[r].status = "500"
        /\ response[r].detail = <<ProcessingPrefix, "Connection error.">>

\* The answer the handler owes to the reply of its own upstream call.
AnswerTo(text) ==
    LET out == ParseReply(text)
    IN  IF out.raised THEN ErrorResponse(OuterExcept(out.exc)) ELSE BidResponse(out.value)

\* C8: with any number of extraction, root and health requests in flight
\* and any interleaving of their steps, each request's upstream call and
\* response come from its own upload, the credential it read and the reply
\* to its own call, never from another request's; the root and health
\* endpoints answer their fixed payloads in every state.
C8_RequestsIndependent ==
    \A r \in Requests :
        /\ (Done(r) /\ endpoint[r] = "/")
               => (response[r].status = "200" /\ response[r].json =
                      {<<"message", "Preconstruction Bidding API">>, <<"status", "running">>})
        /\ (Done(r) /\ endpoint[r] = "/health")
               => (response[r].status = "200" /\ response[r].json = {<<"status", "healthy">>})
        /\ Handled(r)
               => /\ content[r].some => content[r].val = upload[r].data
                  /\ \A i \in 1..Len(calls[r]) :
                        /\ calls[r][i].media_type = TypeOfName(upload[r].filename)
                        /\ calls[r][i].data = B64Encode(upload[r].data)
                        /\ calls[r][i].api_key = environ["ANTHROPIC_API_KEY"]
                  /\ Replied(r) => response[r] = AnswerTo(Text(r))
                  /\ (Done(r) /\ response[r].status = "200")
                         => (Replied(r) /\ response[r].bid.raw_text = Some(Text(r)))
                  /\ (Done(r) /\ ~Replied(r))
                         => (IsServerError(r) /\
                             response[r].detail = <<ProcessingPrefix>> \o caught[r].msg)

C8_Witness ==
    \E r, q \in Requests :
        /\ r # q
        /\ Handled(r) /\ Handled(q)
        /\ upload[r] # upload[q]
        /\ Replied(r) /\ response[r].status = "200"
        /\ pc[q] = "parse" /\ Len(message[q]) > 0
        /\ message[q] # message[r]

\* C9: one extraction request calls the upstream model at most once, only
\* after the upload was read and the credential found present; with the
\* credential absent no call is made and no image data sent; when the call
\* fails the request ends 500 with that one call made.
C9_AtMostOneCall ==
    \A r \in Requests :
        /\ Len(calls[r]) <= 1
        /\ calls[r] # <<>>
               => /\ content[r].some
                  /\ Truthy(api_key[r])
                  /\ calls[r][1].api_key = api_key[r].val
                  /\ calls[r][1].data = image_data[r]
        /\ KeyAbsent => calls[r] = <<>>
        /\ (Done(r) /\ caught[r] \in UpstreamErrors)
               => (Len(calls[r]) = 1 /\ IsServerError(r) /\ message[r] = <<>>)

C9_Witness ==
    \E r \in Requests :
        /\ Done(r)
        /\ caught[r] \in UpstreamErrors
        /\ Len(calls[r]) = 1
        /\ response[r].status = "500"

\* C10: for a reply with an opening tag of a json block and no fence
\* behind it the candidate is all that follows the tag, trimmed, no other
\* character dropped, so a complete BidFormResponse object behind an
\* unterminated opening tag is answered 200 with its own fields.
C10_OpenBlockKeepsRest ==
    \A r \in Requests :
        (Replied(r) /\ HasOpenBlock(Text(r)))
            => /\ JsonStr(Text(r)) = BlockRest(Text(r))
               /\ IsBidObject(BlockRest(Text(r)), Text(r))
                      => AnswersWith(r, BlockRest(Text(r)))

====
